---- MODULE Spec2Model ----
(***************************************************************************)
(* run_example of src/src/example.py: the Azure NetApp Files cross-region  *)
(* replication sample.  One run provisions account -> capacity pool ->     *)
(* volume in the primary and in the secondary region, authorizes the       *)
(* replication and, when CLEANUP_RESOURCES is set, tears everything down.  *)
(* The run is a single thread; every provider call and every wait is one   *)
(* step whose answer the provider chooses.                                 *)
(***************************************************************************)
EXTENDS Integers, Sequences, FiniteSets, TLC

\* ------------------------------------------------------------------------
\* Configuration (example.py lines 19-42).  Sizes are in GiB: 100 GiB is
\* 107374182400 bytes and 4096 GiB is 4398046511104 bytes.
PRIMARY_RESOURCE_GROUP_NAME == "primary-rg"
PRIMARY_LOCATION == "primary-location"
PRIMARY_ANF_ACCOUNT_NAME == "primary-account"
PRIMARY_CAPACITY_POOL_NAME == "primary-pool"
PRIMARY_VOLUME_NAME == "primary-volume"
SECONDARY_RESOURCE_GROUP_NAME == "secondary-rg"
SECONDARY_LOCATION == "secondary-location"
SECONDARY_ANF_ACCOUNT_NAME == "secondary-account"
SECONDARY_CAPACITY_POOL_NAME == "secondary-pool"
SECONDARY_VOLUME_NAME == "secondary-volume"
CAPACITY_POOL_SIZE == 4096
VOLUME_SIZE == 100
\* status code of the "no replication found" CloudError (line 363)
NOT_FOUND == 404

VARIABLES
    CLEANUP_RESOURCES,        \* the flag of line 42, fixed for the whole run
    volume_size_setting,      \* the value VOLUME_SIZE (line 39) is set to for the run
    pc,                       \* the statement run_example executes next
    primary_account, primary_capacity_pool, primary_volume,
    secondary_account, secondary_capacity_pool, data_replication_volume,
    loop_index,               \* position of the running teardown loop in its id list
    raised,                   \* the exception that left run_example, or NoError
    calls,                    \* every provider call and wait issued so far, with its answer
    console,                  \* the lines written by console_output
    present, deleting, repl,  \* provider: resources that exist, deletions in progress,
                              \* volumes that are an endpoint of a replication
    eraseBoth                 \* provider: delete_replication removes both endpoints

vars == <<CLEANUP_RESOURCES, volume_size_setting, pc, primary_account, primary_capacity_pool, primary_volume,
          secondary_account, secondary_capacity_pool, data_replication_volume,
          loop_index, raised, calls, console, present, deleting, repl, eraseBoth>>

locals == <<primary_account, primary_capacity_pool, primary_volume,
            secondary_account, secondary_capacity_pool, data_replication_volume>>

\* ------------------------------------------------------------------------
\* Values

\* Python's None for the six resource variables (lines 192, 207, 226, 252, 267, 286)
None == [id |-> <<>>, name |-> ""]

\* A call's answer: it returned, or it raised.
Ok == [kind |-> "ok", status_code |-> 0]
CloudError(code) == [kind |-> "CloudError", status_code |-> code]
WaiterError == [kind |-> "WaiterError", status_code |-> 0]
NoError == [kind |-> "none", status_code |-> 0]

\* the status codes a rejected provider call may carry
ErrorCodes == {NOT_FOUND, 500}
CloudErrors == {CloudError(c) : c \in ErrorCodes}

\* no data_protection (create_volume's default, line 113)
NoProtection == [endpoint_type |-> "", remote_volume_resource_id |-> <<>>]

\* A resource id is the path <<resource group, account [, pool [, volume]]>>.
\* resource_uri_utils: the named segment of the path, "" when the path has none.
get_resource_group(id) == IF Len(id) >= 1 THEN id[1] ELSE ""
get_anf_account(id) == IF Len(id) >= 2 THEN id[2] ELSE ""
get_anf_capacity_pool(id) == IF Len(id) >= 3 THEN id[3] ELSE ""
get_anf_volume(id) == IF Len(id) >= 4 THEN id[4] ELSE ""

\* the path of the resource one level up
Parent(id) == IF Len(id) >= 1 THEN SubSeq(id, 1, Len(id) - 1) ELSE <<>>

\* the object the provider returns for a created resource
ProviderObject(id) == [id |-> id, name |-> IF Len(id) >= 1 THEN id[Len(id)] ELSE ""]

\* One entry of the call log.
Call(op, rid) ==
    [op |-> op, rid |-> rid, ans |-> NoError, replication |-> FALSE, location |-> "",
     data_protection |-> NoProtection, size |-> 0, usage_threshold |-> 0,
     remote_volume_resource_id |-> <<>>]

Answered(call, ans) == [call EXCEPT !.ans = ans]

CreateOps == {"accounts.create_or_update", "pools.create_or_update", "volumes.create_or_update"}
DeleteOps == {"accounts.delete", "pools.delete", "volumes.delete"}

\* ------------------------------------------------------------------------
\* The provider (ResourceClient) and the waiter (sample_utils)

\* What the provider may answer to a call.  Any call may be rejected with any
\* status code, except that the replication status query answers NOT_FOUND
\* exactly for a volume without replication; a volume that is still a
\* replication endpoint cannot be deleted, and a volume below the minimum size
\* cannot be created.
ProviderAnswers(call) ==
    CASE call.op = "volumes.create_or_update" /\ call.usage_threshold < VOLUME_SIZE ->
            CloudErrors
      [] call.op = "volumes.replication_status_method" ->
            IF call.rid \in repl THEN {Ok, CloudError(500)} ELSE CloudErrors
      [] call.op = "volumes.delete" ->
            IF call.rid \in repl THEN CloudErrors ELSE {Ok} \cup CloudErrors
      [] OTHER -> {Ok} \cup CloudErrors

\* What a wait may answer: it returns once the provider shows the state waited
\* for, and fails on a terminal error or when its time is up.
WaiterAnswers(call) ==
    LET reached ==
            CASE call.op = "wait_for_anf_resource" /\ ~call.replication ->
                    call.rid \in present /\ call.rid \notin deleting
              [] call.op = "wait_for_anf_resource" /\ call.replication ->
                    call.rid \in repl
              [] call.op = "wait_for_no_anf_resource" /\ ~call.replication ->
                    call.rid \in deleting \/ call.rid \notin present
              [] OTHER -> call.rid \notin repl
    IN  IF reached THEN {Ok, WaiterError} ELSE {WaiterError}

\* The provider's state after an answered call.
PresentAfter(call) ==
    IF call.ans # Ok THEN present
    ELSE IF call.op \in CreateOps THEN present \cup {call.rid}
    ELSE IF call.op = "wait_for_no_anf_resource" /\ ~call.replication
         THEN present \ {call.rid}
    ELSE present

DeletingAfter(call) ==
    IF call.ans # Ok THEN deleting
    ELSE IF call.op \in DeleteOps THEN deleting \cup {call.rid}
    ELSE IF call.op = "wait_for_no_anf_resource" /\ ~call.replication
         THEN deleting \ {call.rid}
    ELSE deleting

ReplAfter(call) ==
    IF call.ans # Ok THEN repl
    ELSE IF call.op = "volumes.create_or_update" /\ call.data_protection.endpoint_type = "dst"
         THEN repl \cup {call.rid}
    ELSE IF call.op = "volumes.authorize_replication" THEN repl \cup {call.rid}
    ELSE IF call.op = "volumes.delete_replication"
         THEN IF eraseBoth THEN {} ELSE repl \ {call.rid}
    ELSE repl

\* The call is issued and answered: it joins the log and the provider moves.
Issue(call) ==
    /\ calls' = Append(calls, call)
    /\ present' = PresentAfter(call)
    /\ deleting' = DeletingAfter(call)
    /\ repl' = ReplAfter(call)
    /\ UNCHANGED <<eraseBoth, CLEANUP_RESOURCES, volume_size_setting>>

Say(lines) == console' = console \o lines

\* The statement reached, and the exception (if any) that leaves run_example.
Goto(target, ans) ==
    /\ pc' = target
    /\ raised' = IF target = "raised" THEN ans ELSE raised

\* ------------------------------------------------------------------------
\* The helpers of example.py: the request each one sends

create_account(resource_group_name, anf_account_name, location) ==
    [Call("accounts.create_or_update", <<resource_group_name, anf_account_name>>)
        EXCEPT !.location = location]

\* (variant: account and pool name change places in the request)
create_capacity_pool_Swapped(resource_group_name, anf_account_name, capacity_pool_name, size, location) ==
    [Call("pools.create_or_update",
          <<resource_group_name, capacity_pool_name, anf_account_name>>)
        EXCEPT !.location = location, !.size = size]

create_capacity_pool(resource_group_name, anf_account_name, capacity_pool_name, size, location) ==
    [Call("pools.create_or_update",
          <<resource_group_name, anf_account_name, capacity_pool_name>>)
        EXCEPT !.location = location, !.size = size]

\* (variant: pool and volume name change places in the request)
create_volume_Swapped(resource_group_name, anf_account_name, capacity_pool_name, volume_name, volume_size, location, data_protection) ==
    [Call("volumes.create_or_update",
          <<resource_group_name, anf_account_name, volume_name, capacity_pool_name>>)
        EXCEPT !.location = location, !.usage_threshold = volume_size,
               !.data_protection = data_protection]

\* (the subnet id and the fixed NFSv4.1 export policy are left out of the request)
create_volume(resource_group_name, anf_account_name, capacity_pool_name, volume_name, volume_size, location, data_protection) ==
    [Call("volumes.create_or_update",
          <<resource_group_name, anf_account_name, capacity_pool_name, volume_name>>)
        EXCEPT !.location = location, !.usage_threshold = volume_size,
               !.data_protection = data_protection]

\* (variant: the replication flag is not passed on)
wait_for_anf_resource_NoFlag(resource_id, replication) ==
    [Call("wait_for_anf_resource", resource_id) EXCEPT !.replication = FALSE]

wait_for_anf_resource(resource_id, replication) ==
    [Call("wait_for_anf_resource", resource_id) EXCEPT !.replication = replication]

\* (variant: the replication flag is not passed on)
wait_for_no_anf_resource_NoFlag(resource_id, replication) ==
    [Call("wait_for_no_anf_resource", resource_id) EXCEPT !.replication = FALSE]

wait_for_no_anf_resource(resource_id, replication) ==
    [Call("wait_for_no_anf_resource", resource_id) EXCEPT !.replication = replication]

\* ------------------------------------------------------------------------
\* Exceptions in run_example

\* (variant: the handler does not raise again)
TryCreate_NoRaise(ans, next) == next

\* (variant: the wait after the primary volume's creation is left out)
TryCreate_NoWait(ans, next) ==
    IF ans # Ok THEN "raised"
    ELSE IF next = "wait_primary_volume" THEN "secondary_account" ELSE next

\* try: create ... except CloudError: console_output(...); raise
TryCreate(ans, next) == IF ans = Ok THEN next ELSE "raised"

\* (variant: the failure of the statement is ignored)
Unhandled_Ignored(ans, next) == next

\* a statement outside every try block: whatever it raises leaves run_example
Unhandled(ans, next) == IF ans = Ok THEN next ELSE "raised"

\* (variant: the handler prints nothing)
Diagnostic_Silent(ans, line) == <<>>

\* the line an except CloudError block prints, if the exception is one
Diagnostic(ans, line) == IF ans.kind = "CloudError" THEN <<line>> ELSE <<>>

\* ------------------------------------------------------------------------
\* Provisioning

\* the sizes the configuration is tried with: the shipped one, which is the
\* minimum of a volume (lines 39, 131-132), and one below it
VolumeSizeSettings == {VOLUME_SIZE - 1, VOLUME_SIZE}

Init ==
    /\ CLEANUP_RESOURCES \in BOOLEAN
    /\ volume_size_setting \in VolumeSizeSettings
    /\ eraseBoth \in BOOLEAN
    /\ pc = "primary_account"
    /\ primary_account = None
    /\ primary_capacity_pool = None
    /\ primary_volume = None
    /\ secondary_account = None
    /\ secondary_capacity_pool = None
    /\ data_replication_volume = None
    /\ loop_index = 1
    /\ raised = NoError
    /\ calls = <<>>
    /\ console = <<>>
    /\ present = {}
    /\ deleting = {}
    /\ repl = {}

CreatePrimaryAccount ==
    /\ pc = "primary_account"
    /\ LET req == create_account(PRIMARY_RESOURCE_GROUP_NAME, PRIMARY_ANF_ACCOUNT_NAME,
                                 PRIMARY_LOCATION)
       IN  \E ans \in ProviderAnswers(req) :
             /\ Issue(Answered(req, ans))
             /\ primary_account' = IF ans = Ok THEN ProviderObject(req.rid) ELSE primary_account
             /\ Say(<<"Creating Primary ANF Resources...", "Creating Primary Account...">>
                    \o IF ans = Ok THEN <<"Account successfully created">>
                       ELSE Diagnostic(ans, "An error occurred while creating Account"))
             /\ Goto(TryCreate(ans, "primary_capacity_pool"), ans)
    /\ UNCHANGED <<primary_capacity_pool, primary_volume, secondary_account,
                   secondary_capacity_pool, data_replication_volume, loop_index>>

CreatePrimaryCapacityPool ==
    /\ pc = "primary_capacity_pool"
    /\ LET req == create_capacity_pool(PRIMARY_RESOURCE_GROUP_NAME, primary_account.name,
                                       PRIMARY_CAPACITY_POOL_NAME, CAPACITY_POOL_SIZE,
                                       PRIMARY_LOCATION)
       IN  \E ans \in ProviderAnswers(req) :
             /\ Issue(Answered(req, ans))
             /\ primary_capacity_pool' =
                    IF ans = Ok THEN ProviderObject(req.rid) ELSE primary_capacity_pool
             /\ Say(<<"Creating Primary Capacity Pool...">>
                    \o IF ans = Ok THEN <<"Capacity Pool successfully created">>
                       ELSE Diagnostic(ans, "An error occurred while creating Capacity Pool"))
             /\ Goto(TryCreate(ans, "primary_volume"), ans)
    /\ UNCHANGED <<primary_account, primary_volume, secondary_account,
                   secondary_capacity_pool, data_replication_volume, loop_index>>

CreatePrimaryVolume ==
    /\ pc = "primary_volume"
    /\ LET pool_name == get_anf_capacity_pool(primary_capacity_pool.id)
           req == create_volume(PRIMARY_RESOURCE_GROUP_NAME, primary_account.name, pool_name,
                                PRIMARY_VOLUME_NAME, volume_size_setting, PRIMARY_LOCATION,
                                NoProtection)
       IN  \E ans \in ProviderAnswers(req) :
             /\ Issue(Answered(req, ans))
             /\ primary_volume' = IF ans = Ok THEN ProviderObject(req.rid) ELSE primary_volume
             /\ Say(<<"Creating Primary Volume...">>
                    \o IF ans = Ok THEN <<"Volume successfully created">>
                       ELSE Diagnostic(ans, "An error occurred while creating Volume"))
             /\ Goto(TryCreate(ans, "wait_primary_volume"), ans)
    /\ UNCHANGED <<primary_account, primary_capacity_pool, secondary_account,
                   secondary_capacity_pool, data_replication_volume, loop_index>>

WaitPrimaryVolume ==
    /\ pc = "wait_primary_volume"
    /\ LET req == wait_for_anf_resource(primary_volume.id, FALSE)
       IN  \E ans \in WaiterAnswers(req) :
             /\ Issue(Answered(req, ans))
             /\ Say(<<"Waiting for volume to be available...">>)
             /\ Goto(Unhandled(ans, "secondary_account"), ans)
    /\ UNCHANGED <<locals, loop_index>>

CreateSecondaryAccount ==
    /\ pc = "secondary_account"
    /\ LET req == create_account(SECONDARY_RESOURCE_GROUP_NAME, SECONDARY_ANF_ACCOUNT_NAME,
                                 SECONDARY_LOCATION)
       IN  \E ans \in ProviderAnswers(req) :
             /\ Issue(Answered(req, ans))
             /\ secondary_account' =
                    IF ans = Ok THEN ProviderObject(req.rid) ELSE secondary_account
             /\ Say(<<"Creating Secondary ANF Resources...", "Creating Secondary Account...">>
                    \o IF ans = Ok THEN <<"Account successfully created">>
                       ELSE Diagnostic(ans, "An error occurred while creating Account"))
             /\ Goto(TryCreate(ans, "secondary_capacity_pool"), ans)
    /\ UNCHANGED <<primary_account, primary_capacity_pool, primary_volume,
                   secondary_capacity_pool, data_replication_volume, loop_index>>

CreateSecondaryCapacityPool ==
    /\ pc = "secondary_capacity_pool"
    /\ LET req == create_capacity_pool(SECONDARY_RESOURCE_GROUP_NAME, secondary_account.name,
                                       SECONDARY_CAPACITY_POOL_NAME, CAPACITY_POOL_SIZE,
                                       SECONDARY_LOCATION)
       IN  \E ans \in ProviderAnswers(req) :
             /\ Issue(Answered(req, ans))
             /\ secondary_capacity_pool' =
                    IF ans = Ok THEN ProviderObject(req.rid) ELSE secondary_capacity_pool
             /\ Say(<<"Creating Secondary Capacity Pool...">>
                    \o IF ans = Ok THEN <<"Capacity Pool successfully created">>
                       ELSE Diagnostic(ans, "An error occurred while creating Capacity Pool"))
             /\ Goto(TryCreate(ans, "data_replication_volume"), ans)
    /\ UNCHANGED <<primary_account, primary_capacity_pool, primary_volume,
                   secondary_account, data_replication_volume, loop_index>>

\* (variant: the destination volume is declared as the source endpoint)
replication_object_Src ==
    [endpoint_type |-> "src", remote_volume_resource_id |-> primary_volume.id]

\* the ReplicationObject of line 288
replication_object ==
    [endpoint_type |-> "dst", remote_volume_resource_id |-> primary_volume.id]

CreateDataReplicationVolume ==
    /\ pc = "data_replication_volume"
    /\ LET pool_name == get_anf_capacity_pool(secondary_capacity_pool.id)
           req == create_volume(SECONDARY_RESOURCE_GROUP_NAME, secondary_account.name,
                                pool_name, SECONDARY_VOLUME_NAME, volume_size_setting,
                                SECONDARY_LOCATION, replication_object)
       IN  \E ans \in ProviderAnswers(req) :
             /\ Issue(Answered(req, ans))
             /\ data_replication_volume' =
                    IF ans = Ok THEN ProviderObject(req.rid) ELSE data_replication_volume
             /\ Say(<<"Creating Secondary Volume...">>
                    \o IF ans = Ok THEN <<"Volume successfully created">>
                       ELSE Diagnostic(ans, "An error occurred while creating Volume"))
             /\ Goto(TryCreate(ans, "wait_data_replication_volume"), ans)
    /\ UNCHANGED <<primary_account, primary_capacity_pool, primary_volume,
                   secondary_account, secondary_capacity_pool, loop_index>>

WaitDataReplicationVolume ==
    /\ pc = "wait_data_replication_volume"
    /\ LET req == wait_for_anf_resource(data_replication_volume.id, FALSE)
       IN  \E ans \in WaiterAnswers(req) :
             /\ Issue(Answered(req, ans))
             /\ Say(<<"Waiting for volume to be available...">>)
             /\ Goto(Unhandled(ans, "authorize_replication"), ans)
    /\ UNCHANGED <<locals, loop_index>>

\* the request of lines 313-317
authorize_replication ==
    [Call("volumes.authorize_replication",
          <<get_resource_group(primary_account.id), get_anf_account(primary_account.id),
            get_anf_capacity_pool(primary_capacity_pool.id),
            get_anf_volume(primary_volume.id)>>)
        EXCEPT !.remote_volume_resource_id = data_replication_volume.id]

AuthorizeReplication ==
    /\ pc = "authorize_replication"
    /\ \E ans \in ProviderAnswers(authorize_replication) :
         /\ Issue(Answered(authorize_replication, ans))
         /\ Say(<<"Authorizing replication in source region...">>)
         /\ Goto(Unhandled(ans, "wait_replication"), ans)
    /\ UNCHANGED <<locals, loop_index>>

\* (variant: the authorization is tried again after the replication wait)
AfterReplication_Again == "authorize_replication"

\* (variant: the flag is not consulted)
AfterReplication_Always == "replication_status"

\* line 328: the teardown runs only under the flag
AfterReplication == IF CLEANUP_RESOURCES THEN "replication_status" ELSE "completed"

WaitReplication ==
    /\ pc = "wait_replication"
    /\ LET req == wait_for_anf_resource(primary_volume.id, TRUE)
       IN  \E ans \in WaiterAnswers(req) :
             /\ Issue(Answered(req, ans))
             /\ Say(IF ans = Ok /\ AfterReplication = "replication_status"
                    THEN <<"Cleaning up resources", "Deleting Volumes...">> ELSE <<>>)
             /\ Goto(Unhandled(ans, AfterReplication), ans)
    /\ UNCHANGED <<locals, loop_index>>

\* ------------------------------------------------------------------------
\* Cleanup (lines 328-421)

\* (variant: the source volume comes first)
volume_ids_SourceFirst == <<primary_volume.id, data_replication_volume.id>>

\* (variant: the source volume is missing from the list)
volume_ids_DestinationOnly == <<data_replication_volume.id>>

\* (variant: the primary pool is listed twice, the secondary pool not at all)
pool_ids_PrimaryTwice == <<primary_capacity_pool.id, primary_capacity_pool.id>>

\* the lists the three cleanup loops run over (lines 337, 385, 407)
volume_ids == <<data_replication_volume.id, primary_volume.id>>
pool_ids == <<primary_capacity_pool.id, secondary_capacity_pool.id>>
account_ids == <<primary_account.id, secondary_account.id>>

\* the names a loop body parses out of the id it handles
volume_path(volume_id) ==
    <<get_resource_group(volume_id), get_anf_account(volume_id),
      get_anf_capacity_pool(volume_id), get_anf_volume(volume_id)>>
pool_path(pool_id) ==
    <<get_resource_group(pool_id), get_anf_account(pool_id), get_anf_capacity_pool(pool_id)>>
account_path(account_id) == <<get_resource_group(account_id), get_anf_account(account_id)>>

\* (variant: the 404 is raised like any other error)
OnReplicationError_AlwaysRaise(e) == "raised"

\* except CloudError as e (lines 362-367): a 404 is passed over and the volume is
\* deleted next; anything else is raised again.  An exception that is no
\* CloudError is not caught at all.
OnReplicationError(e) ==
    IF e.kind = "CloudError" /\ e.status_code = NOT_FOUND THEN "volumes_delete" ELSE "raised"

\* what the inner (line 366) and then the outer (line 378) handler print
ReplicationDiagnostic(e) ==
    IF e.kind = "CloudError" /\ e.status_code # NOT_FOUND
    THEN <<"An error occurred while deleting replication",
           "An error occurred while deleting volumes">>
    ELSE <<>>

\* (variant: the loops go on after a failure)
TryDelete_GoOn(ans, next) == next

\* the try blocks around the three loops: print and raise again
TryDelete(ans, next) == IF ans = Ok THEN next ELSE "raised"

ReplicationStatus ==
    /\ pc = "replication_status"
    /\ LET req == Call("volumes.replication_status_method",
                       volume_path(volume_ids[loop_index]))
       IN  \E ans \in ProviderAnswers(req) :
             /\ Issue(Answered(req, ans))
             /\ Say(ReplicationDiagnostic(ans))
             /\ Goto(IF ans = Ok THEN "delete_replication" ELSE OnReplicationError(ans), ans)
    /\ UNCHANGED <<locals, loop_index>>

DeleteReplication ==
    /\ pc = "delete_replication"
    /\ LET req == Call("volumes.delete_replication", volume_path(volume_ids[loop_index]))
       IN  \E ans \in ProviderAnswers(req) :
             /\ Issue(Answered(req, ans))
             /\ Say(ReplicationDiagnostic(ans))
             /\ Goto(IF ans = Ok THEN "wait_no_replication" ELSE OnReplicationError(ans), ans)
    /\ UNCHANGED <<locals, loop_index>>

WaitNoReplication ==
    /\ pc = "wait_no_replication"
    /\ LET req == wait_for_no_anf_resource(volume_ids[loop_index], TRUE)
       IN  \E ans \in WaiterAnswers(req) :
             /\ Issue(Answered(req, ans))
             /\ Say(ReplicationDiagnostic(ans))
             /\ Goto(IF ans = Ok THEN "volumes_delete" ELSE OnReplicationError(ans), ans)
    /\ UNCHANGED <<locals, loop_index>>

VolumesDelete ==
    /\ pc = "volumes_delete"
    /\ LET req == Call("volumes.delete", volume_path(volume_ids[loop_index]))
       IN  \E ans \in ProviderAnswers(req) :
             /\ Issue(Answered(req, ans))
             /\ Say(Diagnostic(ans, "An error occurred while deleting volumes"))
             /\ Goto(TryDelete(ans, "wait_no_volume"), ans)
    /\ UNCHANGED <<locals, loop_index>>

WaitNoVolume ==
    /\ pc = "wait_no_volume"
    /\ LET req == wait_for_no_anf_resource(volume_ids[loop_index], FALSE)
           more == loop_index < Len(volume_ids)
       IN  \E ans \in WaiterAnswers(req) :
             /\ Issue(Answered(req, ans))
             /\ Say(IF ans # Ok THEN Diagnostic(ans, "An error occurred while deleting volumes")
                    ELSE <<"Successfully deleted Volume">>
                         \o IF more THEN <<>> ELSE <<"Deleting Capacity Pools...">>)
             /\ loop_index' = IF ans # Ok THEN loop_index
                              ELSE IF more THEN loop_index + 1 ELSE 1
             /\ Goto(TryDelete(ans, IF more THEN "replication_status" ELSE "pools_delete"), ans)
    /\ UNCHANGED locals

PoolsDelete ==
    /\ pc = "pools_delete"
    /\ LET req == Call("pools.delete", pool_path(pool_ids[loop_index]))
       IN  \E ans \in ProviderAnswers(req) :
             /\ Issue(Answered(req, ans))
             /\ Say(Diagnostic(ans, "An error occurred while deleting capacity pools"))
             /\ Goto(TryDelete(ans, "wait_no_pool"), ans)
    /\ UNCHANGED <<locals, loop_index>>

WaitNoPool ==
    /\ pc = "wait_no_pool"
    /\ LET req == wait_for_no_anf_resource(pool_ids[loop_index], FALSE)
           more == loop_index < Len(pool_ids)
       IN  \E ans \in WaiterAnswers(req) :
             /\ Issue(Answered(req, ans))
             /\ Say(IF ans # Ok
                    THEN Diagnostic(ans, "An error occurred while deleting capacity pools")
                    ELSE <<"Successfully deleted Capacity Pool">>
                         \o IF more THEN <<>> ELSE <<"Deleting Accounts...">>)
             /\ loop_index' = IF ans # Ok THEN loop_index
                              ELSE IF more THEN loop_index + 1 ELSE 1
             /\ Goto(TryDelete(ans, IF more THEN "pools_delete" ELSE "accounts_delete"), ans)
    /\ UNCHANGED locals

AccountsDelete ==
    /\ pc = "accounts_delete"
    /\ LET req == Call("accounts.delete", account_path(account_ids[loop_index]))
       IN  \E ans \in ProviderAnswers(req) :
             /\ Issue(Answered(req, ans))
             /\ Say(Diagnostic(ans, "An error occurred while deleting accounts"))
             /\ Goto(TryDelete(ans, "wait_no_account"), ans)
    /\ UNCHANGED <<locals, loop_index>>

WaitNoAccount ==
    /\ pc = "wait_no_account"
    /\ LET req == wait_for_no_anf_resource(account_ids[loop_index], FALSE)
           more == loop_index < Len(account_ids)
       IN  \E ans \in WaiterAnswers(req) :
             /\ Issue(Answered(req, ans))
             /\ Say(IF ans # Ok THEN Diagnostic(ans, "An error occurred while deleting accounts")
                    ELSE <<"Successfully deleted Account">>)
             /\ loop_index' = IF ans # Ok THEN loop_index
                              ELSE IF more THEN loop_index + 1 ELSE 1
             /\ Goto(TryDelete(ans, IF more THEN "accounts_delete" ELSE "completed"), ans)
    /\ UNCHANGED locals

\* line 423
Completed ==
    /\ pc = "completed"
    /\ Say(<<"ANF Cross-Region Replication has completed successfully">>)
    /\ pc' = "done"
    /\ UNCHANGED <<locals, loop_index, raised, calls, present, deleting, repl, eraseBoth,
                   CLEANUP_RESOURCES, volume_size_setting>>

Next ==
    \/ CreatePrimaryAccount
    \/ CreatePrimaryCapacityPool
    \/ CreatePrimaryVolume
    \/ WaitPrimaryVolume
    \/ CreateSecondaryAccount
    \/ CreateSecondaryCapacityPool
    \/ CreateDataReplicationVolume
    \/ WaitDataReplicationVolume
    \/ AuthorizeReplication
    \/ WaitReplication
    \/ ReplicationStatus
    \/ DeleteReplication
    \/ WaitNoReplication
    \/ VolumesDelete
    \/ WaitNoVolume
    \/ PoolsDelete
    \/ WaitNoPool
    \/ AccountsDelete
    \/ WaitNoAccount
    \/ Completed

Spec == Init /\ [][Next]_vars

\* run_example is one thread that runs on as long as it has a statement left,
\* and every provider call and every wait it makes comes back, by returning or
\* by raising (the waiter gives up when its time is over).
FairSpec == Spec /\ WF_vars(Next)

\* ------------------------------------------------------------------------
\* Properties of the call log

Idx == 1 .. Len(calls)

\* calls[k] is the request op on resource rid
Is(k, op, rid) == calls[k].op = op /\ calls[k].rid = rid

\* calls[k] is a readiness wait on rid that returned
ReadyWait(k, rid) ==
    /\ Is(k, "wait_for_anf_resource", rid)
    /\ ~calls[k].replication
    /\ calls[k].ans = Ok

\* calls[k] is an absence wait on rid (on its replication, if replication) that returned
AbsentWait(k, rid, replication) ==
    /\ Is(k, "wait_for_no_anf_resource", rid)
    /\ calls[k].replication = replication
    /\ calls[k].ans = Ok

SecondaryVolumeId ==
    <<SECONDARY_RESOURCE_GROUP_NAME, SECONDARY_ANF_ACCOUNT_NAME,
      SECONDARY_CAPACITY_POOL_NAME, SECONDARY_VOLUME_NAME>>

\* C1: volumes.authorize_replication is issued only after a readiness wait on
\* the destination volume it names has returned; once the creation of the
\* secondary volume or the readiness wait on it has failed, the log holds no
\* authorize_replication.
C1_AuthorizeAfterDestinationReady ==
    /\ \A k \in Idx :
         calls[k].op = "volumes.authorize_replication" =>
            /\ calls[k].remote_volume_resource_id = SecondaryVolumeId
            /\ \E j \in 1 .. (k - 1) : ReadyWait(j, calls[k].remote_volume_resource_id)
    /\ \A j \in Idx :
         (/\ calls[j].rid = SecondaryVolumeId
          /\ calls[j].op \in {"volumes.create_or_update", "wait_for_anf_resource"}
          /\ ~calls[j].replication
          /\ calls[j].ans # Ok)
         => \A k \in Idx : calls[k].op # "volumes.authorize_replication"

\* the authorization has been issued
C1_Witness == \E k \in Idx : calls[k].op = "volumes.authorize_replication"

\* the resources whose creation the provider has accepted so far
Created == {calls[k].rid : k \in {j \in Idx : calls[j].op \in CreateOps /\ calls[j].ans = Ok}}

\* rid has been deleted and confirmed absent before call k
DeletedBefore(op, rid, k) ==
    \E d \in 1 .. (k - 1) : \E w \in (d + 1) .. (k - 1) :
        /\ Is(d, op, rid) /\ calls[d].ans = Ok
        /\ AbsentWait(w, rid, FALSE)

\* the replication teardown of volume rid is complete before call k: its status
\* was queried, and either no replication was found, or the replication was
\* deleted and the wait for its absence returned
ReplicationTornDownBefore(rid, k) ==
    \E q \in 1 .. (k - 1) :
        /\ Is(q, "volumes.replication_status_method", rid)
        /\ \/ calls[q].ans = CloudError(NOT_FOUND)
           \/ /\ calls[q].ans = Ok
              /\ \E d \in (q + 1) .. (k - 1) : \E w \in (d + 1) .. (k - 1) :
                    /\ Is(d, "volumes.delete_replication", rid)
                    /\ AbsentWait(w, rid, TRUE)

\* C2: volumes.delete for a volume is issued only after that volume's own
\* replication teardown has finished (status check and, when a replication
\* exists, delete_replication plus the wait for its absence), and pools.delete
\* for a pool only after every volume of the pool was deleted and confirmed
\* absent.
C2_DeleteAfterOwnTeardown ==
    /\ \A k \in Idx :
         calls[k].op = "volumes.delete" => ReplicationTornDownBefore(calls[k].rid, k)
    /\ \A k \in Idx :
         calls[k].op = "pools.delete" =>
            \A v \in Created :
                (Len(v) = 4 /\ Parent(v) = calls[k].rid) => DeletedBefore("volumes.delete", v, k)

\* C3: both volumes are deleted and confirmed absent before the first
\* pools.delete, both pools before the first accounts.delete, and at the
\* provider no pool or volume ever exists under a parent that is gone or
\* being deleted.
C3_TierOrder ==
    /\ \A k \in Idx :
         calls[k].op = "pools.delete" =>
            /\ Cardinality({v \in Created : Len(v) = 4}) = 2
            /\ \A v \in Created : Len(v) = 4 => DeletedBefore("volumes.delete", v, k)
    /\ \A k \in Idx :
         calls[k].op = "accounts.delete" =>
            /\ Cardinality({p \in Created : Len(p) = 3}) = 2
            /\ \A p \in Created : Len(p) = 3 => DeletedBefore("pools.delete", p, k)
    /\ \A r \in present :
         Len(r) > 2 => Parent(r) \in present /\ Parent(r) \notin deleting

\* a cleanup that ran to its end
C3_Witness ==
    /\ pc = "done"
    /\ \E k \in Idx : calls[k].op = "accounts.delete"

C5_ChildAfterParent ==
    \A k \in Idx :
        calls[k].op \in {"pools.create_or_update", "volumes.create_or_update"} =>
            \E j \in 1 .. (k - 1) :
                /\ calls[j].op = (IF calls[k].op = "pools.create_or_update"
                                  THEN "accounts.create_or_update"
                                  ELSE "pools.create_or_update")
                /\ calls[j].rid = Parent(calls[k].rid)
                /\ calls[j].location = calls[k].location
                /\ calls[j].ans = Ok

\* the secondary volume's creation has been issued
C5_Witness ==
    \E k \in Idx : /\ calls[k].op = "volumes.create_or_update"
                   /\ calls[k].location = SECONDARY_LOCATION

\* C6: a rejected creation is the last call of the run: the run has ended with
\* the provider's error, nothing was issued after it, and what was created
\* before is still there.
C6_FailFast ==
    \A k \in Idx :
        (calls[k].op \in CreateOps /\ calls[k].ans # Ok) =>
            /\ k = Len(calls)
            /\ pc = "raised"
            /\ raised = calls[k].ans
            /\ \A j \in 1 .. (k - 1) : calls[j].op \in CreateOps => calls[j].rid \in present

\* the last of the six creations is rejected in a run with cleanup enabled
C6_Witness ==
    /\ CLEANUP_RESOURCES
    /\ \E k \in Idx : /\ Is(k, "volumes.create_or_update", SecondaryVolumeId)
                      /\ calls[k].ans # Ok

\* C7: after a replication status query answered not-found, delete_replication
\* is not issued for that volume, the run has not failed on it, and the next
\* call is the deletion of that volume.
C7_NotFoundIsNoOp ==
    \A k \in Idx :
        (/\ calls[k].op = "volumes.replication_status_method"
         /\ calls[k].ans = CloudError(NOT_FOUND)) =>
            /\ \A d \in Idx : ~Is(d, "volumes.delete_replication", calls[k].rid)
            /\ k = Len(calls) =>
                  /\ pc = "volumes_delete"
                  /\ raised = NoError
                  /\ volume_path(volume_ids[loop_index]) = calls[k].rid
            /\ k < Len(calls) => Is(k + 1, "volumes.delete", calls[k].rid)

\* a status query answered not-found and the volume's deletion was issued
C7_Witness ==
    \E k \in Idx :
        /\ calls[k].op = "volumes.replication_status_method"
        /\ calls[k].ans = CloudError(NOT_FOUND)
        /\ k < Len(calls)

\* C8: a not-found error of any call other than the replication status query
\* ends the run with that error.
C8_NotFoundOnlyInStatusCheck ==
    \A k \in Idx :
        (/\ calls[k].ans = CloudError(NOT_FOUND)
         /\ calls[k].op # "volumes.replication_status_method") =>
            /\ k = Len(calls)
            /\ pc = "raised"
            /\ raised = calls[k].ans

TeardownOps ==
    DeleteOps \cup {"volumes.replication_status_method", "volumes.delete_replication",
                    "wait_for_no_anf_resource"}

\* C9: with cleanup disabled no teardown call is ever issued, and a run that
\* completed leaves the six resources and the replication in place.
C9_NoTeardownWithoutCleanup ==
    ~CLEANUP_RESOURCES =>
        /\ \A k \in Idx : calls[k].op \notin TeardownOps
        /\ pc \in {"completed", "done"} =>
              /\ present = {account_ids[1], account_ids[2], pool_ids[1], pool_ids[2],
                            volume_ids[1], volume_ids[2]}
              /\ Cardinality(present) = 6
              /\ deleting = {}
              /\ repl = {volume_ids[1], volume_ids[2]}

\* a run without cleanup that printed the success message
C9_Witness == ~CLEANUP_RESOURCES /\ pc = "done"

AllDeleteOps == DeleteOps \cup {"volumes.delete_replication"}

\* C10: an accepted deletion (of a volume, a pool, an account or the
\* replication) is directly followed by the absence wait on what was deleted,
\* and every later delete call comes after that wait has returned.
C10_AbsencePollAfterDelete ==
    \A k \in Idx :
        (calls[k].op \in AllDeleteOps /\ calls[k].ans = Ok) =>
            LET replication == calls[k].op = "volumes.delete_replication" IN
            /\ k < Len(calls) =>
                  /\ Is(k + 1, "wait_for_no_anf_resource", calls[k].rid)
                  /\ calls[k + 1].replication = replication
            /\ \A m \in (k + 1) .. Len(calls) :
                  calls[m].op \in AllDeleteOps =>
                     \E w \in (k + 1) .. (m - 1) : AbsentWait(w, calls[k].rid, replication)

\* the replication and all six resources were deleted
C10_Witness ==
    /\ pc = "done"
    /\ \E k \in Idx : calls[k].op = "volumes.delete_replication" /\ calls[k].ans = Ok
    /\ Cardinality({k \in Idx : calls[k].op \in DeleteOps /\ calls[k].ans = Ok}) = 6


PrimaryVolumeId ==
    <<PRIMARY_RESOURCE_GROUP_NAME, PRIMARY_ANF_ACCOUNT_NAME,
      PRIMARY_CAPACITY_POOL_NAME, PRIMARY_VOLUME_NAME>>

\* C11 as stated: once delete_replication has been accepted, a volume deletion
\* is issued only after the wait for the replication's absence has returned
\* for the destination volume and for the source volume.
C11_WaitOnBothSides ==
    \A k \in Idx :
        (/\ calls[k].op = "volumes.delete"
         /\ \E d \in 1 .. (k - 1) :
               calls[d].op = "volumes.delete_replication" /\ calls[d].ans = Ok)
        => \A v \in {SecondaryVolumeId, PrimaryVolumeId} :
              \E w \in 1 .. (k - 1) : AbsentWait(w, v, TRUE)

\* C11 (amended): an accepted delete_replication on a volume is directly
\* followed by the wait for the replication's absence on that same volume, a
\* volume deletion comes only after that wait has returned, and the wait is
\* never made on another volume than the one whose replication was just
\* deleted and which is deleted next.
C11_WaitOnDeletedSide ==
    /\ \A d \in Idx :
         (calls[d].op = "volumes.delete_replication" /\ calls[d].ans = Ok) =>
            /\ d < Len(calls) =>
                  /\ Is(d + 1, "wait_for_no_anf_resource", calls[d].rid)
                  /\ calls[d + 1].replication
            /\ \A k \in (d + 1) .. Len(calls) :
                  calls[k].op = "volumes.delete" =>
                     \E w \in (d + 1) .. (k - 1) : AbsentWait(w, calls[d].rid, TRUE)
    /\ \A w \in Idx :
         (calls[w].op = "wait_for_no_anf_resource" /\ calls[w].replication) =>
            /\ w > 1
            /\ Is(w - 1, "volumes.delete_replication", calls[w].rid)
            /\ calls[w - 1].ans = Ok
            /\ (w < Len(calls) => Is(w + 1, "volumes.delete", calls[w].rid))

\* the replication was deleted on the destination, the wait returned and the
\* destination volume's deletion was issued
C11_Witness ==
    \E w \in Idx :
        /\ AbsentWait(w, SecondaryVolumeId, TRUE)
        /\ w < Len(calls)
        /\ Is(w + 1, "volumes.delete", SecondaryVolumeId)


\* C12: the secondary volume is requested as a replication destination whose
\* remote volume is the primary volume created before in this run; the primary
\* volume is requested without data protection, and it is a replication
\* endpoint at the provider only once authorize_replication was accepted for it.
C12_DestinationRole ==
    /\ \A k \in Idx :
         (calls[k].op = "volumes.create_or_update" /\ calls[k].location = SECONDARY_LOCATION) =>
            /\ calls[k].data_protection.endpoint_type = "dst"
            /\ calls[k].data_protection.remote_volume_resource_id = primary_volume.id
            /\ \E j \in 1 .. (k - 1) :
                  /\ Is(j, "volumes.create_or_update", primary_volume.id)
                  /\ calls[j].location = PRIMARY_LOCATION
                  /\ calls[j].ans = Ok
    /\ \A k \in Idx :
         (calls[k].op = "volumes.create_or_update" /\ calls[k].location = PRIMARY_LOCATION) =>
            calls[k].data_protection = NoProtection
    /\ \A k \in Idx :
         calls[k].op = "volumes.create_or_update" =>
            calls[k].location \in {PRIMARY_LOCATION, SECONDARY_LOCATION}
    /\ (primary_volume # None /\ primary_volume.id \in repl) =>
            \E a \in Idx : /\ Is(a, "volumes.authorize_replication", primary_volume.id)
                           /\ calls[a].remote_volume_resource_id = data_replication_volume.id
                           /\ calls[a].ans = Ok

\* both volumes exist and the primary volume has become a replication endpoint
C12_Witness ==
    /\ data_replication_volume # None
    /\ data_replication_volume.id \in repl
    /\ primary_volume.id \in repl


\* the line has been written to the console
Printed(line) == \E n \in 1 .. Len(console) : console[n] = line

SuccessMessage == "ANF Cross-Region Replication has completed successfully"

\* calls[k] is the wait for the replication of the primary volume
ReplicationWait(k) ==
    /\ Is(k, "wait_for_anf_resource", primary_volume.id)
    /\ calls[k].replication

\* C13: an accepted authorize_replication is directly followed by the wait for
\* the replication of the primary volume; no teardown call is issued and the
\* success message is not printed before that wait has returned, and a failed
\* wait ends the run with its error.
C13_ReplicationWaitAfterAuthorize ==
    \A k \in Idx :
        (calls[k].op = "volumes.authorize_replication" /\ calls[k].ans = Ok) =>
            /\ k = Len(calls) => pc = "wait_replication" /\ ~Printed(SuccessMessage)
            /\ k < Len(calls) =>
                  /\ ReplicationWait(k + 1)
                  /\ calls[k + 1].ans # Ok =>
                        /\ k + 1 = Len(calls)
                        /\ pc = "raised"
                        /\ raised = calls[k + 1].ans
                        /\ ~Printed(SuccessMessage)
            /\ \A m \in (k + 1) .. Len(calls) :
                  calls[m].op \in TeardownOps =>
                     \E w \in (k + 1) .. (m - 1) : ReplicationWait(w) /\ calls[w].ans = Ok
            /\ Printed(SuccessMessage) =>
                  \E w \in (k + 1) .. Len(calls) : ReplicationWait(w) /\ calls[w].ans = Ok

\* the replication wait has failed after an accepted authorization
C13_Witness ==
    \E k \in Idx :
        /\ calls[k].op = "volumes.authorize_replication" /\ calls[k].ans = Ok
        /\ k < Len(calls)
        /\ calls[k + 1].ans # Ok


\* calls[k] is the replication status query answering not-found
NotFoundSignal(k) ==
    /\ calls[k].op = "volumes.replication_status_method"
    /\ calls[k].ans = CloudError(NOT_FOUND)

\* C14: a call or wait that fails, unless it is the replication status query
\* answering not-found, is the last one of the run: the run has ended with its
\* error and the success message is never printed.
C14_FailureUnwindsRun ==
    \A k \in Idx :
        (calls[k].ans # Ok /\ ~NotFoundSignal(k)) =>
            /\ k = Len(calls)
            /\ pc = "raised"
            /\ raised = calls[k].ans
            /\ ~Printed(SuccessMessage)


\* the line the handler around a cleanup loop prints
TierDiagnostic(op) ==
    CASE op = "pools.delete" -> "An error occurred while deleting capacity pools"
      [] op = "accounts.delete" -> "An error occurred while deleting accounts"
      [] OTHER -> "An error occurred while deleting volumes"

DiagnosticLines ==
    {"An error occurred while creating Account",
     "An error occurred while creating Capacity Pool",
     "An error occurred while creating Volume",
     "An error occurred while deleting replication",
     "An error occurred while deleting volumes",
     "An error occurred while deleting capacity pools",
     "An error occurred while deleting accounts"}

\* C16: a run that ended with an error has written a diagnostic line as its
\* last console output.
C16_FailureIsReported ==
    pc = "raised" =>
        /\ Len(console) > 0
        /\ console[Len(console)] \in DiagnosticLines


\* C17: volumes.create_or_update is never issued with a size below the
\* minimum of 100 GiB (107374182400 bytes).
C17_NoUndersizedVolumeRequest ==
    \A k \in Idx :
        calls[k].op = "volumes.create_or_update" => calls[k].usage_threshold >= VOLUME_SIZE


PrimaryNames ==
    {PRIMARY_RESOURCE_GROUP_NAME, PRIMARY_ANF_ACCOUNT_NAME, PRIMARY_CAPACITY_POOL_NAME,
     PRIMARY_VOLUME_NAME}
SecondaryNames ==
    {SECONDARY_RESOURCE_GROUP_NAME, SECONDARY_ANF_ACCOUNT_NAME,
     SECONDARY_CAPACITY_POOL_NAME, SECONDARY_VOLUME_NAME}

\* the names making up the path
Segments(id) == {id[n] : n \in 1 .. Len(id)}

\* C18: a pool creation names the resource group of its region and the
\* account this run created there; a volume creation names that resource
\* group, that account and the pool this run created there; no request mixes
\* names of the two regions.
C18_Hierarchy ==
    \A k \in Idx :
        calls[k].op \in CreateOps =>
            LET primary == calls[k].location = PRIMARY_LOCATION
                account == IF primary THEN primary_account ELSE secondary_account
                pool == IF primary THEN primary_capacity_pool ELSE secondary_capacity_pool
                group == IF primary THEN PRIMARY_RESOURCE_GROUP_NAME
                         ELSE SECONDARY_RESOURCE_GROUP_NAME
            IN  /\ calls[k].location \in {PRIMARY_LOCATION, SECONDARY_LOCATION}
                /\ get_resource_group(calls[k].rid) = group
                /\ Segments(calls[k].rid) \subseteq
                        (IF primary THEN PrimaryNames ELSE SecondaryNames)
                /\ calls[k].op = "pools.create_or_update" =>
                      /\ account # None
                      /\ account.id \in Created
                      /\ Len(calls[k].rid) = 3
                      /\ Parent(calls[k].rid) = account.id
                /\ calls[k].op = "volumes.create_or_update" =>
                      /\ pool # None
                      /\ pool.id \in Created
                      /\ Len(calls[k].rid) = 4
                      /\ Parent(calls[k].rid) = pool.id
                      /\ Parent(pool.id) = account.id
                      /\ get_anf_account(calls[k].rid) = account.name
                      /\ get_anf_capacity_pool(calls[k].rid) = get_anf_capacity_pool(pool.id)

\* the secondary volume was created under the secondary pool
C18_Witness ==
    /\ data_replication_volume # None
    /\ Parent(data_replication_volume.id) = secondary_capacity_pool.id
    /\ primary_volume.id \in present


\* C19: the destination volume is torn down before the primary volume; with a
\* provider that removes the replication of both volumes on delete_replication,
\* delete_replication is issued at most once and only for the destination
\* volume, and the status query on the primary volume never finds a
\* replication: answered not-found, it leads straight to the volume's deletion.
C19_DestinationFirst ==
    /\ \A k \in Idx :
         (calls[k].op \in TeardownOps /\ calls[k].rid = PrimaryVolumeId) =>
            DeletedBefore("volumes.delete", SecondaryVolumeId, k)
    /\ eraseBoth =>
         /\ Cardinality({k \in Idx : calls[k].op = "volumes.delete_replication"}) <= 1
         /\ \A k \in Idx :
              calls[k].op = "volumes.delete_replication" =>
                 /\ calls[k].rid = data_replication_volume.id
                 /\ calls[k].rid = SecondaryVolumeId
         /\ \A k \in Idx :
              Is(k, "volumes.replication_status_method", PrimaryVolumeId) =>
                 /\ calls[k].ans # Ok
                 /\ (NotFoundSignal(k) /\ k < Len(calls)) =>
                        Is(k + 1, "volumes.delete", PrimaryVolumeId)

\* both endpoints went with the one delete_replication and the primary
\* volume's status query answered not-found
C19_Witness ==
    /\ eraseBoth
    /\ \E d \in Idx : /\ Is(d, "volumes.delete_replication", SecondaryVolumeId)
                      /\ calls[d].ans = Ok
    /\ \E k \in Idx : /\ NotFoundSignal(k)
                      /\ calls[k].rid = PrimaryVolumeId
                      /\ k < Len(calls)


\* C20: a secondary resource (account, pool or volume) is created only after
\* the readiness wait on the primary volume has returned; once the primary
\* volume's creation or that wait has failed, no secondary resource is
\* requested at all.
C20_SecondaryAfterPrimaryReady ==
    /\ \A k \in Idx :
         (calls[k].op \in CreateOps /\ calls[k].location = SECONDARY_LOCATION) =>
            \E j \in 1 .. (k - 1) :
                /\ ReadyWait(j, PrimaryVolumeId)
                /\ \E c \in 1 .. (j - 1) :
                      Is(c, "volumes.create_or_update", PrimaryVolumeId) /\ calls[c].ans = Ok
    /\ \A j \in Idx :
         (/\ calls[j].rid = PrimaryVolumeId
          /\ calls[j].op \in {"volumes.create_or_update", "wait_for_anf_resource"}
          /\ ~calls[j].replication
          /\ calls[j].ans # Ok)
         => /\ j = Len(calls)
            /\ \A k \in Idx : calls[k].location # SECONDARY_LOCATION
            /\ {r \in Created : Segments(r) \subseteq SecondaryNames} = {}

\* the secondary volume's creation was issued
C20_Witness ==
    \E k \in Idx : /\ Is(k, "volumes.create_or_update", SecondaryVolumeId)
                   /\ calls[k].data_protection.remote_volume_resource_id = PrimaryVolumeId


\* the delete call that removes a resource of this depth
DeleteOpOf(rid) ==
    CASE Len(rid) = 4 -> "volumes.delete"
      [] Len(rid) = 3 -> "pools.delete"
      [] OTHER -> "accounts.delete"

\* C21: every delete call names a resource whose creation this run had
\* accepted before, with the delete of that resource's kind (delete_replication
\* names one of the two volumes); no delete call is issued twice for one
\* resource; and when a run with cleanup enabled has printed the success
\* message, each of the six created resources was deleted and its absence wait
\* returned, the replication was deleted on the destination volume and every
\* deleted replication was waited for, and the provider holds nothing of the
\* run any more.
C21_TeardownOwnOnce ==
    /\ \A k \in Idx :
         calls[k].op \in AllDeleteOps =>
            /\ \E c \in 1 .. (k - 1) :
                  /\ calls[c].op \in CreateOps
                  /\ calls[c].rid = calls[k].rid
                  /\ calls[c].ans = Ok
            /\ calls[k].op \in DeleteOps => calls[k].op = DeleteOpOf(calls[k].rid)
            /\ calls[k].op = "volumes.delete_replication" => Len(calls[k].rid) = 4
    /\ \A j \in Idx : \A k \in Idx :
         (j < k /\ calls[j].op \in AllDeleteOps /\ calls[j].op = calls[k].op) =>
            calls[j].rid # calls[k].rid
    /\ (CLEANUP_RESOURCES /\ Printed(SuccessMessage)) =>
         /\ Cardinality(Created) = 6
         /\ \A r \in Created : DeletedBefore(DeleteOpOf(r), r, Len(calls) + 1)
         /\ \E d \in Idx : /\ Is(d, "volumes.delete_replication", SecondaryVolumeId)
                           /\ calls[d].ans = Ok
         /\ \A d \in Idx :
              calls[d].op = "volumes.delete_replication" =>
                 /\ calls[d].ans = Ok
                 /\ \E w \in (d + 1) .. Len(calls) : AbsentWait(w, calls[d].rid, TRUE)
         /\ present = {}
         /\ deleting = {}
         /\ repl = {}

\* a cleanup that printed the success message, with a provider that keeps the
\* source endpoint until its own delete_replication
C21_Witness ==
    /\ CLEANUP_RESOURCES
    /\ ~eraseBoth
    /\ Printed(SuccessMessage)
    /\ \E d \in Idx : Is(d, "volumes.delete_replication", PrimaryVolumeId)


\* the run is over: the success message was printed, or an exception left run_example
Terminated == pc \in {"done", "raised"}

OnceOps == CreateOps \cup AllDeleteOps \cup {"volumes.authorize_replication"}

\* what holds of a run at any moment: no create, authorize or delete call is
\* issued twice for one resource; a run that ended in success has printed the
\* success message as its last line after all six creations, the
\* authorization and (with cleanup) the deletion of all six; a run that
\* ended in an error ended with the answer of its last call and printed no
\* success message.
RunOnce ==
    /\ \A j \in Idx : \A k \in Idx :
         (j < k /\ calls[j].op \in OnceOps /\ calls[j].op = calls[k].op) =>
            calls[j].rid # calls[k].rid
    /\ pc = "done" =>
         /\ raised = NoError
         /\ console[Len(console)] = SuccessMessage
         /\ Cardinality(Created) = 6
         /\ \E a \in Idx : Is(a, "volumes.authorize_replication", PrimaryVolumeId)
         /\ CLEANUP_RESOURCES =>
               \A r \in Created : \E d \in Idx : Is(d, DeleteOpOf(r), r)
    /\ pc = "raised" =>
         /\ raised # NoError
         /\ Len(calls) > 0
         /\ raised = calls[Len(calls)].ans
         /\ ~Printed(SuccessMessage)
    /\ Printed(SuccessMessage) => pc = "done"

\* C22: when every provider call and every wait comes back, every run ends,
\* and stays ended, either with the success message after all its steps or
\* with an error, and it has issued each create, authorize and delete call at
\* most once.
C22_RunTerminates == []RunOnce /\ <>[]Terminated

\* a wait gave up during the cleanup and the run ended with its error
C22_Witness ==
    /\ pc = "raised"
    /\ raised = WaiterError
    /\ calls[Len(calls)].op = "wait_for_no_anf_resource"

====
